---- MODULE Spec2Model ----
(***************************************************************************)
(* Model of calculator.py: the Calculator class (add, subtract, multiply, *)
(* divide, power, square_root), its log records, and the driver main().    *)
(*                                                                         *)
(* Numeric values are Python ints (exact, unbounded) and Python floats.    *)
(* A float is a sign and a dyadic magnitude n/d that fits a mantissa of    *)
(* MantBits bits; every float operation rounds the exact result to the     *)
(* nearest such value, ties to even, as IEEE-754 arithmetic does.  The     *)
(* interpreter's format has a 53-bit mantissa; the model keeps the         *)
(* rounding rule and scales the mantissa down.  Magnitudes stay far        *)
(* inside the exponent range, so overflow to inf and underflow do not      *)
(* occur, and inf and nan are not inputs.                                  *)
(***************************************************************************)
EXTENDS Integers, Sequences, FiniteSets, TLC

VARIABLES
    objects,   \* the Calculator instances the caller has created
    pool,      \* the numeric values the caller passes as arguments
    cur,       \* the latest call: method, arguments and the events it produced
    memo,      \* an earlier call the caller has kept (its arguments and outcome)
    failedSince,  \* some call has raised since memo was kept
    mainpc,    \* where main() stands: "idle", the next statement's label, "done"
    stdout,    \* the lines main() has printed
    mainlog    \* the log records emitted since main() started

vars == <<objects, pool, cur, memo, failedSince, mainpc, stdout, mainlog>>

(* ---------------------------- bounds ---------------------------------- *)

\* mantissa width of the model's floats
MantBits == 5

\* int inputs are -MaxInt .. MaxInt
MaxInt == 3

\* int inputs of the call-sequence specification are -1 .. MaxSeqInt
MaxSeqInt == 0

\* int inputs of the calls made before main() runs are -MaxMainInt .. MaxMainInt
MaxMainInt == 2

(* ------------------------- integer helpers ---------------------------- *)

Abs(i) == IF i < 0 THEN -i ELSE i

\* the value of an expression that is evaluated once and then used in several
\* places: S is the set of the one result
Once(S) == CHOOSE v \in S : TRUE

RECURSIVE IPow(_, _)
IPow(x, k) == IF k = 0 THEN 1 ELSE x * IPow(x, k - 1)

RECURSIVE Gcd(_, _)
Gcd(x, y) == IF y = 0 THEN x ELSE Gcd(y, x % y)

(* --------------------------- numeric values --------------------------- *)

\* a Python int
I(i) == [k |-> "int", s |-> IF i < 0 THEN -1 ELSE 1, n |-> Abs(i), d |-> 1]

\* a Python float of sign sg and magnitude num/den, in lowest terms
Lowest(sg, num, den, g) == [k |-> "float", s |-> sg, n |-> num \div g, d |-> den \div g]

F(sg, num, den) == Lowest(sg, num, den, Gcd(num, den))

\* the complex result of a negative base raised to a non-integer exponent,
\* kept as the unevaluated power
Cx(base, exponent) == [k |-> "complex", base |-> base, exponent |-> exponent]

IsReal(v) == v.k \in {"int", "float"}

IsZero(v) == v.n = 0

\* signed numerator of a real value
Num(v) == v.s * v.n

\* v < 0  (Python's < on int and float; -0.0 < 0 is False)
Neg(v) == v.s = -1 /\ v.n > 0

\* Python's == between two real values (5 == 5.0, 0.0 == -0.0)
NumEq(v, w) == Num(v) * w.d = Num(w) * v.d

IsIntegral(v) == v.d = 1

\* the float sg * m * 2^e
Pack(sg, m, e) == IF e >= 0 THEN F(sg, m * IPow(2, e), 1) ELSE F(sg, m, IPow(2, -e))

\* q + r/den to the nearest integer, a tie to the even one
Nearest(q, r, den) ==
    IF 2 * r > den \/ (2 * r = den /\ q % 2 = 1) THEN q + 1 ELSE q

\* num/den * 2^e with num/den scaled into [2^(MantBits-1), 2^MantBits)
RECURSIVE Scale(_, _, _)
Scale(num, den, e) ==
    IF num >= den * IPow(2, MantBits) THEN Scale(num, 2 * den, e + 1)
    ELSE IF num < den * IPow(2, MantBits - 1) THEN Scale(2 * num, den, e - 1)
    ELSE <<num, den, e>>

RoundScaled(sg, t) == Pack(sg, Nearest(t[1] \div t[2], t[1] % t[2], t[2]), t[3])

\* the exact rational sg * num/den rounded to the nearest float, ties to even
Round(sg, num, den) ==
    IF num = 0 THEN F(sg, 0, 1) ELSE RoundScaled(sg, Scale(num, den, 0))

\* float(v): an int converts to the nearest float, a float is itself
ToFloat(v) == IF v.k = "float" THEN v ELSE Round(v.s, v.n, 1)

\* sq/dsq * 4^e with sq/dsq scaled into [4^(MantBits-1), 4^MantBits)
RECURSIVE SqrtScale(_, _, _)
SqrtScale(sq, dsq, e) ==
    IF sq >= dsq * IPow(4, MantBits) THEN SqrtScale(sq, 4 * dsq, e + 1)
    ELSE IF sq < dsq * IPow(4, MantBits - 1) THEN SqrtScale(4 * sq, dsq, e - 1)
    ELSE <<sq, dsq, e>>

\* the integer part of sqrt(sq/dsq), a mantissa
Floor(sq, dsq) ==
    CHOOSE c \in IPow(2, MantBits - 1)..(IPow(2, MantBits) - 1) :
        /\ c * c * dsq <= sq
        /\ (c + 1) * (c + 1) * dsq > sq

\* sqrt(sq/dsq), of integer part q, to the nearest integer: it is compared
\* with q + 1/2 by comparing the squares
NearestRoot(q, sq, dsq) ==
    IF (2 * q + 1) * (2 * q + 1) * dsq < 4 * sq THEN q + 1 ELSE q

RoundSqrtScaled(sg, t) == Pack(sg, NearestRoot(Floor(t[1], t[2]), t[1], t[2]), t[3])

\* the nearest float to sg * sqrt(num/den)
RoundSqrt(sg, num, den) ==
    IF num = 0 THEN F(sg, 0, 1)
    ELSE RoundSqrtScaled(sg, SqrtScale(num, den, 0))

(* ----------------------- Python's arithmetic -------------------------- *)

\* the float sum of the exact rational sum/den; an exact zero is -0.0 only
\* when both operands are negative (zero)
FloatSum(sum, den, bothneg) ==
    IF sum = 0 THEN F(IF bothneg THEN -1 ELSE 1, 0, 1)
    ELSE Round(IF sum < 0 THEN -1 ELSE 1, Abs(sum), den)

FloatAdd(x, y) ==
    FloatSum(Num(x) * y.d + Num(y) * x.d, x.d * y.d, x.s = -1 /\ y.s = -1)

FloatSub(x, y) ==
    FloatSum(Num(x) * y.d - Num(y) * x.d, x.d * y.d, x.s = -1 /\ y.s = 1)

FloatMul(x, y) == Round(x.s * y.s, x.n * y.n, x.d * y.d)

FloatDiv(x, y) == Round(x.s * y.s, x.n * y.d, x.d * y.n)

BothInt(a, b) == a.k = "int" /\ b.k = "int"

\* a + b
PyAdd(a, b) ==
    IF BothInt(a, b) THEN I(Num(a) + Num(b)) ELSE Once({FloatAdd(x, y) : x \in {ToFloat(a)}, y \in {ToFloat(b)}})

\* a - b
PySub(a, b) ==
    IF BothInt(a, b) THEN I(Num(a) - Num(b)) ELSE Once({FloatSub(x, y) : x \in {ToFloat(a)}, y \in {ToFloat(b)}})

\* a * b
PyMul(a, b) ==
    IF BothInt(a, b) THEN I(Num(a) * Num(b)) ELSE Once({FloatMul(x, y) : x \in {ToFloat(a)}, y \in {ToFloat(b)}})

\* floor(num/den) for den > 0
FloorQuotient(num, den) ==
    IF num >= 0 THEN num \div den ELSE -((den - num - 1) \div den)

\* a slip: a // b, the floored quotient (an int for two ints), for a / b
PyFloorDiv(a, b) ==
    IF BothInt(a, b) THEN I(FloorQuotient(b.s * Num(a), b.n))
    ELSE FloatSum(FloorQuotient(b.s * Num(a) * b.d, a.d * b.n), 1, a.s * b.s = -1)

\* a / b for b # 0: true division, the result is always a float; the
\* quotient of two ints is rounded once, from the exact quotient
PyTrueDiv(a, b) ==
    IF BothInt(a, b) THEN Round(a.s * b.s, a.n, b.n) ELSE Once({FloatDiv(x, y) : x \in {ToFloat(a)}, y \in {ToFloat(b)}})

\* the exception an arithmetic operator raises instead of giving a value
PyError(exc, msg) == [k |-> "error", exc |-> exc, msg |-> msg]

\* |x| ** y for x # 0 and y = p/1 or p/2, with the sign sg
PowMagnitude(sg, x, y) ==
    CASE y.d = 1 /\ y.s = 1 -> Round(sg, IPow(x.n, y.n), IPow(x.d, y.n))
      [] y.d = 1 /\ y.s = -1 -> Round(sg, IPow(x.d, y.n), IPow(x.n, y.n))
      [] y.d = 2 /\ y.s = 1 -> RoundSqrt(sg, IPow(x.n, y.n), IPow(x.d, y.n))
      [] y.d = 2 /\ y.s = -1 -> RoundSqrt(sg, IPow(x.d, y.n), IPow(x.n, y.n))

\* the sign of x ** y: negative for a negative x and an odd integer y
PowSign(x, y) == IF x.s = -1 /\ y.d = 1 /\ y.n % 2 = 1 THEN -1 ELSE 1

\* float ** float (float_pow)
FloatPow(x, y) ==
    IF IsZero(y) THEN F(1, 1, 1)
    ELSE IF IsZero(x)
         THEN IF Neg(y)
              THEN PyError("ZeroDivisionError", "0.0 cannot be raised to a negative power")
              ELSE F(PowSign(x, y), 0, 1)
    ELSE IF Neg(x) /\ ~IsIntegral(y) THEN Cx(x, y)
    ELSE PowMagnitude(PowSign(x, y), x, y)

\* a ** b: int ** non-negative int is an exact int, everything else goes
\* through float ** float
PyPow(a, b) ==
    IF a.k = "int" /\ b.k = "int" /\ b.s = 1 THEN I(IPow(Num(a), b.n))
    ELSE Once({FloatPow(x, y) : x \in {ToFloat(a)}, y \in {ToFloat(b)}})

(* --------------------------- str(value) ------------------------------- *)

Digit(i) == <<"0", "1", "2", "3", "4", "5", "6", "7", "8", "9">>[i + 1]

RECURSIVE Digits(_)
Digits(i) == IF i < 10 THEN Digit(i) ELSE Digits(i \div 10) \o Digit(i % 10)

RECURSIVE FracDigits(_, _)
FracDigits(r, den) ==
    IF r = 0 THEN ""
    ELSE Digit((10 * r) \div den) \o FracDigits((10 * r) % den, den)

Sign(v) == IF v.s = -1 THEN "-" ELSE ""

\* what an f-string puts for {v}: an int prints its digits, a float prints
\* with a decimal point (5.0, 3.5, -0.0).  A float below 0.0001 prints in
\* exponent notation, which no value of the model needs (such a value is an
\* evaluation error here, not a wrong string).
RECURSIVE Str(_)
Str(v) ==
    CASE v.k = "int" -> Sign(v) \o Digits(v.n)
      [] v.k = "float" /\ (v.n = 0 \/ v.n * 10000 >= v.d) ->
            Sign(v) \o Digits(v.n \div v.d) \o "."
                \o (IF v.n % v.d = 0 THEN "0" ELSE FracDigits(v.n % v.d, v.d))
      [] v.k = "complex" -> "(" \o Str(v.base) \o "**" \o Str(v.exponent) \o ")"

\* the one-character string U+221A (the radical sign) of the square-root
\* messages; module text is ASCII, so the model writes it as two characters
RadicalSign == "v/"

(* ------------------------ what a call produces ------------------------ *)

LogRecord(level, msg) == [type |-> "log", level |-> level, msg |-> msg]

Return(v) == [type |-> "return", value |-> v]

Raise(exc, msg) == [type |-> "raise", exc |-> exc, msg |-> msg]

\* result = <expression>; logger.info(f"<text>{result}"); return result.
\* An exception of the expression leaves the method at once, before the
\* logger is reached.
Finish(text, result) ==
    Once({ IF r.k = "error"
           THEN << Raise(r.exc, r.msg) >>
           ELSE << LogRecord("INFO", text \o Str(r)), Return(r) >> : r \in {result} })

(* ------------------------- Calculator methods ------------------------- *)
(* Each method is the sequence of events of one call, in program order:   *)
(* the log records it emits, then the return or the raise that ends it.   *)

\* a slip: the difference is computed instead of the sum
add_as_subtract(a, b) ==
    Finish("Addition: " \o Str(a) \o " + " \o Str(b) \o " = ", PySub(a, b))

add(a, b) ==
    Finish("Addition: " \o Str(a) \o " + " \o Str(b) \o " = ", PyAdd(a, b))

\* a slip: the message names the operands in the wrong order
subtract_swapped_message(a, b) ==
    Finish("Subtraction: " \o Str(b) \o " - " \o Str(a) \o " = ", PySub(a, b))

subtract(a, b) ==
    Finish("Subtraction: " \o Str(a) \o " - " \o Str(b) \o " = ", PySub(a, b))

multiply(a, b) ==
    Finish("Multiplication: " \o Str(a) \o " * " \o Str(b) \o " = ", PyMul(a, b))

\* a slip: the zero check is missing, so the interpreter's own error escapes
divide_unguarded(a, b) ==
    Finish("Division: " \o Str(a) \o " / " \o Str(b) \o " = ",
           IF IsZero(b) THEN PyError("ZeroDivisionError", "division by zero")
           ELSE PyTrueDiv(a, b))

\* a slip: an instance-wide error flag that a failed call leaves set, so
\* that the call after a failure fails too
divide_latched(a, b) ==
    IF IsZero(b) \/ (cur.events # <<>> /\ cur.events[Len(cur.events)].type = "raise")
    THEN << LogRecord("ERROR", "Division by zero attempted"),
            Raise("ValueError", "Cannot divide by zero") >>
    ELSE Finish("Division: " \o Str(a) \o " / " \o Str(b) \o " = ", PyTrueDiv(a, b))

divide(a, b) ==
    IF IsZero(b)
    THEN << LogRecord("ERROR", "Division by zero attempted"),
            Raise("ValueError", "Cannot divide by zero") >>
    ELSE Finish("Division: " \o Str(a) \o " / " \o Str(b) \o " = ", PyTrueDiv(a, b))

\* a slip: the product is computed instead of the power
power_as_multiply(base, exponent) ==
    Finish("Power: " \o Str(base) \o " ^ " \o Str(exponent) \o " = ", PyMul(base, exponent))

power(base, exponent) ==
    Finish("Power: " \o Str(base) \o " ^ " \o Str(exponent) \o " = ", PyPow(base, exponent))

\* a slip: the check is number <= 0, so zero is rejected too
square_root_rejects_zero(number) ==
    IF Neg(number) \/ IsZero(number)
    THEN << LogRecord("ERROR", "Square root of negative number attempted"),
            Raise("ValueError", "Cannot calculate square root of negative number") >>
    ELSE Finish("Square root: " \o RadicalSign \o Str(number) \o " = ",
                PyPow(number, F(1, 1, 2)))

square_root(number) ==
    IF Neg(number)
    THEN << LogRecord("ERROR", "Square root of negative number attempted"),
            Raise("ValueError", "Cannot calculate square root of negative number") >>
    ELSE Finish("Square root: " \o RadicalSign \o Str(number) \o " = ",
                PyPow(number, F(1, 1, 2)))

(* ----------------------------- the caller ----------------------------- *)

\* float literals the tests pass: -1.5, -0.0, 0.5, 2.0, 2.5
FloatInputs == {F(-1, 3, 2), F(-1, 0, 1), F(1, 1, 2), F(1, 2, 1), F(1, 5, 2)}

Values == {I(i) : i \in -MaxInt..MaxInt} \cup FloatInputs

SeqValues == {I(i) : i \in -1..MaxSeqInt}

MainValues == {I(i) : i \in -MaxMainInt..MaxMainInt}

NoCall == [self |-> "none", op |-> "none", args |-> <<>>, events |-> <<>>]

\* the call self.<op>(*args) and the events it produced
Call(self, op, args, events) == [self |-> self, op |-> op, args |-> args, events |-> events]

\* the event that ends a call
Last(c) == c.events[Len(c.events)]

Returned(c) == c # NoCall /\ Last(c).type = "return"

Raised(c) == c # NoCall /\ Last(c).type = "raise"

\* the log records of a call, in order
LogOf(c) == SelectSeq(c.events, LAMBDA e : e.type = "log")

Init ==
    /\ objects = {"calc"}
    /\ pool = Values
    /\ cur = NoCall
    /\ memo = NoCall
    /\ failedSince = FALSE
    /\ mainpc = "idle"
    /\ stdout = <<>>
    /\ mainlog = <<>>

InitSeq ==
    /\ objects = {"calc", "calculator"}
    /\ pool = SeqValues
    /\ cur = NoCall
    /\ memo = NoCall
    /\ failedSince = FALSE
    /\ mainpc = "idle"
    /\ stdout = <<>>
    /\ mainlog = <<>>

InitMain ==
    /\ objects = {"calc"}
    /\ pool = MainValues
    /\ cur = NoCall
    /\ memo = NoCall
    /\ failedSince = FALSE
    /\ mainpc = "idle"
    /\ stdout = <<>>
    /\ mainlog = <<>>

\* the call c has been made and has ended
Made(c) ==
    /\ cur' = c
    /\ failedSince' = (memo # NoCall /\ (failedSince \/ Raised(c)))

Add ==
    /\ mainpc = "idle"
    /\ \E self \in objects : \E a, b \in pool :
            Made(Call(self, "add", <<a, b>>, add(a, b)))
    /\ UNCHANGED <<objects, pool, memo, mainpc, stdout, mainlog>>

Subtract ==
    /\ mainpc = "idle"
    /\ \E self \in objects : \E a, b \in pool :
            Made(Call(self, "subtract", <<a, b>>, subtract(a, b)))
    /\ UNCHANGED <<objects, pool, memo, mainpc, stdout, mainlog>>

Multiply ==
    /\ mainpc = "idle"
    /\ \E self \in objects : \E a, b \in pool :
            Made(Call(self, "multiply", <<a, b>>, multiply(a, b)))
    /\ UNCHANGED <<objects, pool, memo, mainpc, stdout, mainlog>>

Divide ==
    /\ mainpc = "idle"
    /\ \E self \in objects : \E a, b \in pool :
            Made(Call(self, "divide", <<a, b>>, divide(a, b)))
    /\ UNCHANGED <<objects, pool, memo, mainpc, stdout, mainlog>>

Power ==
    /\ mainpc = "idle"
    /\ \E self \in objects : \E a, b \in pool :
            Made(Call(self, "power", <<a, b>>, power(a, b)))
    /\ UNCHANGED <<objects, pool, memo, mainpc, stdout, mainlog>>

SquareRoot ==
    /\ mainpc = "idle"
    /\ \E self \in objects : \E a \in pool :
            Made(Call(self, "square_root", <<a>>, square_root(a)))
    /\ UNCHANGED <<objects, pool, memo, mainpc, stdout, mainlog>>

\* the caller keeps the latest call's outcome (result = self.calc.add(...))
Remember ==
    /\ mainpc = "idle"
    /\ cur # NoCall
    /\ memo' = cur
    /\ failedSince' = FALSE
    /\ UNCHANGED <<objects, pool, cur, mainpc, stdout, mainlog>>

\* the caller passes the result it has just kept on as the first argument
\* of the next call, as the integration tests do
Chain ==
    /\ mainpc = "idle"
    /\ cur = memo
    /\ Returned(memo)
    /\ IsReal(Last(memo).value)
    /\ LET r == Last(memo).value
       IN  \/ \E b \in pool : Made(Call(memo.self, "add", <<r, b>>, add(r, b)))
           \/ \E b \in pool : Made(Call(memo.self, "subtract", <<r, b>>, subtract(r, b)))
           \/ \E b \in pool : Made(Call(memo.self, "multiply", <<r, b>>, multiply(r, b)))
           \/ \E b \in pool : Made(Call(memo.self, "divide", <<r, b>>, divide(r, b)))
           \/ Made(Call(memo.self, "square_root", <<r>>, square_root(r)))
    /\ UNCHANGED <<objects, pool, memo, mainpc, stdout, mainlog>>

(* ------------------------------- main() ------------------------------- *)

\* the statements of main() after calc = Calculator(), in program order
MainProgram ==
    << [label |-> "line64", kind |-> "print", text |-> "Calculator Demo"],
       [label |-> "line65", kind |-> "print", text |-> "==============="],
       [label |-> "line68", kind |-> "call", text |-> "5 + 3 = ",
        op |-> "add", args |-> <<I(5), I(3)>>],
       [label |-> "line69", kind |-> "call", text |-> "10 - 4 = ",
        op |-> "subtract", args |-> <<I(10), I(4)>>],
       [label |-> "line70", kind |-> "call", text |-> "6 * 7 = ",
        op |-> "multiply", args |-> <<I(6), I(7)>>],
       [label |-> "line71", kind |-> "call", text |-> "15 / 3 = ",
        op |-> "divide", args |-> <<I(15), I(3)>>],
       [label |-> "line72", kind |-> "call", text |-> "2 ^ 8 = ",
        op |-> "power", args |-> <<I(2), I(8)>>],
       [label |-> "line73", kind |-> "call", text |-> RadicalSign \o "25 = ",
        op |-> "square_root", args |-> <<I(25)>>] >>

\* calc.<op>(*args)
Dispatch(op, args) ==
    CASE op = "add" -> add(args[1], args[2])
      [] op = "subtract" -> subtract(args[1], args[2])
      [] op = "multiply" -> multiply(args[1], args[2])
      [] op = "divide" -> divide(args[1], args[2])
      [] op = "power" -> power(args[1], args[2])
      [] op = "square_root" -> square_root(args[1])

Labels == {MainProgram[i].label : i \in 1..Len(MainProgram)}

\* the statement that carries a label
At(label) == CHOOSE i \in 1..Len(MainProgram) : MainProgram[i].label = label

\* a slip: every other statement of main() is left out
After_skipping(i) ==
    IF i + 1 >= Len(MainProgram) THEN "done" ELSE MainProgram[i + 2].label

\* the label after statement i, "done" after the last
After(i) == IF i = Len(MainProgram) THEN "done" ELSE MainProgram[i + 1].label

\* main() is entered: calc = Calculator()
MainStart ==
    /\ mainpc = "idle"
    /\ mainpc' = MainProgram[1].label
    /\ stdout' = <<>>
    /\ mainlog' = <<>>
    /\ UNCHANGED <<objects, pool, cur, memo, failedSince>>

\* print(<text>)
PrintLine(i, text) ==
    /\ stdout' = Append(stdout, text)
    /\ mainpc' = After(i)
    /\ UNCHANGED <<cur, failedSince, mainlog>>

\* print(f"<text>{calc.<op>(...)}"): the call c is made first, then its
\* result is printed; an exception of the call leaves main() unprinted
PrintCall(i, text, c) ==
    /\ Made(c)
    /\ mainlog' = mainlog \o LogOf(c)
    /\ IF Returned(c)
       THEN /\ stdout' = Append(stdout, text \o Str(Last(c).value))
            /\ mainpc' = After(i)
       ELSE /\ stdout' = stdout
            /\ mainpc' = "failed"

Execute(i, st) ==
    IF st.kind = "print"
    THEN PrintLine(i, st.text)
    ELSE \E c \in {Call("calc", st.op, st.args, Dispatch(st.op, st.args))} :
            PrintCall(i, st.text, c)

\* main() executes its next statement
MainStep ==
    /\ mainpc \in Labels
    /\ Execute(At(mainpc), MainProgram[At(mainpc)])
    /\ UNCHANGED <<objects, pool, memo>>

(* --------------------------- specifications --------------------------- *)

\* any caller: calls with fresh arguments in any order, and a run of main()
Next ==
    \/ Add
    \/ Subtract
    \/ Multiply
    \/ Divide
    \/ Power
    \/ SquareRoot
    \/ MainStart
    \/ MainStep

Spec == Init /\ [][Next]_vars

\* a run of main() after a caller's own calls; main() is straight-line code:
\* once entered, it keeps executing
SpecMain == InitMain /\ [][Next]_vars /\ WF_vars(MainStep)

\* a call sequence in which the caller keeps one earlier call to compare
NextSeq ==
    \/ Add
    \/ Subtract
    \/ Multiply
    \/ Divide
    \/ Power
    \/ SquareRoot
    \/ Remember

SpecSeq == InitSeq /\ [][NextSeq]_vars

\* one call on fresh arguments, kept, then calls on its result
First ==
    /\ memo = NoCall
    /\ (Add \/ Subtract \/ Multiply \/ Divide \/ Power \/ SquareRoot)

Keep ==
    /\ memo = NoCall
    /\ Remember

NextChain ==
    \/ First
    \/ Keep
    \/ Chain

SpecChain == Init /\ [][NextChain]_vars

(* ----------------------------- properties ----------------------------- *)

HasEvent(c, e) == \E i \in DOMAIN c.events : c.events[i] = e

HasReturn(c) == \E i \in DOMAIN c.events : c.events[i].type = "return"

DivideByZeroError == Raise("ValueError", "Cannot divide by zero")

NegativeRootError == Raise("ValueError", "Cannot calculate square root of negative number")

\* C1: a call divide(a, b) with b = 0 (0, 0.0 or -0.0) ends by raising
\* ValueError("Cannot divide by zero") and returns nothing; with b # 0 it
\* never raises that error.
DivideByZeroRejected ==
    cur.op = "divide" =>
        IF IsZero(cur.args[2])
        THEN Last(cur) = DivideByZeroError /\ ~HasReturn(cur)
        ELSE ~HasEvent(cur, DivideByZeroError)

\* a division by the float zero -0.0 has been rejected
DivideByZeroSeen ==
    /\ cur.op = "divide"
    /\ cur.args[2] = F(-1, 0, 1)
    /\ Last(cur) = DivideByZeroError

\* C2: a call square_root(n) with n < 0 ends by raising
\* ValueError("Cannot calculate square root of negative number") and returns
\* nothing; with n >= 0, n = 0 included, it returns a value that is not
\* negative.
SquareRootDomain ==
    cur.op = "square_root" =>
        IF Neg(cur.args[1])
        THEN Last(cur) = NegativeRootError /\ ~HasReturn(cur)
        ELSE /\ Returned(cur)
             /\ IsReal(Last(cur).value)
             /\ ~Neg(Last(cur).value)

\* the square root of the int 0 has been returned
SquareRootOfZeroSeen ==
    /\ cur.op = "square_root"
    /\ cur.args[1] = I(0)
    /\ Returned(cur)
    /\ IsZero(Last(cur).value)

\* C3: only divide with b = 0 and square_root with n < 0 fail; add, subtract,
\* multiply and power return a result for every pair of arguments.
NoOtherFailure ==
    /\ cur.op \in {"add", "subtract", "multiply", "power"} => Returned(cur)
    /\ Raised(cur) =>
           \/ cur.op = "divide" /\ IsZero(cur.args[2])
           \/ cur.op = "square_root" /\ Neg(cur.args[1])

\* C4: every call emits exactly one log record before it ends: a call that
\* returns emits one INFO record, a call that raises emits one ERROR record
\* before the raise.
OneLogRecordPerCall ==
    cur # NoCall =>
        /\ Len(cur.events) = 2
        /\ cur.events[1].type = "log"
        /\ \/ cur.events[2].type = "return" /\ cur.events[1].level = "INFO"
           \/ cur.events[2].type = "raise" /\ cur.events[1].level = "ERROR"

\* the end of the call c is the last of events
EndsLike(c, events) == Last(c) = events[Len(events)]

\* C7: add and multiply return the same result whichever way round the two
\* operands are passed: the result of the call made equals the result of the
\* same method on the operands swapped.
Commutative ==
    cur.op \in {"add", "multiply"} =>
        /\ Returned(cur)
        /\ EndsLike(cur, Dispatch(cur.op, <<cur.args[2], cur.args[1]>>))

\* an int and a float have been added
MixedAddSeen ==
    /\ cur.op = "add"
    /\ cur.args = <<I(-3), F(1, 5, 2)>>
    /\ Returned(cur)

OperationName(op) ==
    CASE op = "add" -> "Addition"
      [] op = "subtract" -> "Subtraction"
      [] op = "multiply" -> "Multiplication"
      [] op = "divide" -> "Division"
      [] op = "power" -> "Power"
      [] op = "square_root" -> "Square root"

Operator(op) ==
    CASE op = "add" -> "+"
      [] op = "subtract" -> "-"
      [] op = "multiply" -> "*"
      [] op = "divide" -> "/"
      [] op = "power" -> "^"
      [] op = "square_root" -> RadicalSign

\* "<OperationName>: <a> <op> <b> = <result>"
TwoOperandLine(c) ==
    OperationName(c.op) \o ": " \o Str(c.args[1]) \o " " \o Operator(c.op) \o " "
        \o Str(c.args[2]) \o " = " \o Str(Last(c).value)

\* "<OperationName>: <op><n> = <result>"
OneOperandLine(c) ==
    OperationName(c.op) \o ": " \o Operator(c.op) \o Str(c.args[1]) \o " = "
        \o Str(Last(c).value)

\* C10 as claimed: every call that returns, of any of the six operations,
\* has logged the one INFO line "<OperationName>: <a> <op> <b> = <result>",
\* with both operands in call order and the value it returns.
LogLineForm ==
    Returned(cur) =>
        /\ Len(cur.args) = 2
        /\ LogOf(cur) = << LogRecord("INFO", TwoOperandLine(cur)) >>

\* C10 as amended: the five two-operand operations log that line; square_root
\* has one operand and logs "Square root: <radical sign><n> = <result>".  The
\* logged result is the returned one in all six.
LogLineFormByArity ==
    Returned(cur) =>
        IF cur.op = "square_root"
        THEN LogOf(cur) = << LogRecord("INFO", OneOperandLine(cur)) >>
        ELSE LogOf(cur) = << LogRecord("INFO", TwoOperandLine(cur)) >>

\* a square root and a subtraction of distinct operands have been logged
SquareRootLogged ==
    /\ cur.op = "square_root"
    /\ cur.args = <<F(1, 5, 2)>>
    /\ Returned(cur)
    /\ Len(LogOf(cur)) = 1

\* r is a within float tolerance, 4 * 2^-MantBits relative: a result of up to
\* three roundings (int operands converted to float, then one or two float
\* operations), each of relative error at most 2^-MantBits
Close(r, a) ==
    Abs(Num(r) * a.d - Num(a) * r.d) * IPow(2, MantBits) <= 4 * a.n * r.d

\* q is the quotient a/b as a float: q * b is a within float tolerance
TrueQuotient(q, a, b) ==
    Abs(Num(q) * Num(b) * a.d - Num(a) * q.d * b.d) * IPow(2, MantBits)
        <= 4 * a.n * q.d * b.n

\* q is exactly a/b
ExactQuotient(q, a, b) == Num(q) * Num(b) * a.d = Num(a) * q.d * b.d

\* the caller has kept divide(a, b) and has passed its result q to
\* multiply(q, b)
MultipliedBack ==
    /\ memo.op = "divide"
    /\ Returned(memo)
    /\ cur.op = "multiply"
    /\ cur.args = <<Last(memo).value, memo.args[2]>>

\* C5: for b # 0, divide(a, b) returns the true quotient a/b (rounded to a
\* float, never floored), and multiply(divide(a, b), b) returns a within
\* float tolerance, exactly a where the quotient is exact.
DivideMultiplyRoundTrip ==
    /\ cur.op = "divide" /\ Returned(cur) =>
           /\ Last(cur).value.k = "float"
           /\ TrueQuotient(Last(cur).value, cur.args[1], cur.args[2])
    /\ MultipliedBack =>
           /\ Returned(cur)
           /\ Close(Last(cur).value, memo.args[1])
           /\ ExactQuotient(Last(memo).value, memo.args[1], memo.args[2]) =>
                  NumEq(Last(cur).value, memo.args[1])

\* divide(3, 2) has returned 1.5 and multiply(1.5, 2) has returned
RoundTripSeen ==
    /\ MultipliedBack
    /\ memo.args = <<I(3), I(2)>>
    /\ Last(memo).value = F(1, 3, 2)
    /\ Returned(cur)

\* |v|
Magnitude(v) == [v EXCEPT !.s = 1]

\* the caller has kept power(x, 2)
Squared == memo.op = "power" /\ NumEq(memo.args[2], I(2))

\* C6: power(x, 2) returns a value that square_root accepts, and
\* square_root of it returns |x|: never negative, within float tolerance of
\* |x|, and exactly |x| for an int x.
SquareRootOfSquare ==
    /\ cur.op = "power" /\ NumEq(cur.args[2], I(2)) =>
           /\ Returned(cur)
           /\ IsReal(Last(cur).value)
           /\ ~Neg(Last(cur).value)
    /\ Squared /\ cur.op = "square_root" /\ cur.args = <<Last(memo).value>> =>
           /\ Returned(cur)
           /\ ~Neg(Last(cur).value)
           /\ Close(Last(cur).value, Magnitude(memo.args[1]))
           /\ memo.args[1].k = "int" => NumEq(Last(cur).value, Magnitude(memo.args[1]))

\* power(-3, 2) has returned 9 and square_root(9) has returned 3.0
RootOfSquareSeen ==
    /\ memo.op = "power"
    /\ memo.args = <<I(-3), I(2)>>
    /\ cur.op = "square_root"
    /\ cur.args = <<I(9)>>
    /\ Last(cur) = Return(F(1, 3, 1))

\* the caller has kept one call and has just made the same call again
SameCallAgain ==
    /\ memo # NoCall
    /\ memo.op = cur.op
    /\ memo.args = cur.args

Header == <<"Calculator Demo", "===============">>

\* the lines of standard output that are not the two header lines
ResultLines(out) == SelectSeq(out, LAMBDA l : \A i \in DOMAIN Header : l # Header[i])

ErrorLogged == \E i \in DOMAIN mainlog : mainlog[i].level = "ERROR"

\* C8: main() prints six result lines, in the order add, subtract, multiply,
\* divide, power, square_root, carrying the results 8, 6, 42, 5, 256 and 5.0;
\* it never fails and never logs an error.
MainPrintsClaimedResults ==
    /\ mainpc # "failed"
    /\ ~ErrorLogged
    /\ mainpc = "done" =>
           ResultLines(stdout) = << "5 + 3 = 8", "10 - 4 = 6", "6 * 7 = 42",
                                    "15 / 3 = 5", "2 ^ 8 = 256",
                                    RadicalSign \o "25 = 5.0" >>

\* what main() has printed when it ends
Printed ==
    << "Calculator Demo", "===============",
       "5 + 3 = 8", "10 - 4 = 6", "6 * 7 = 42", "15 / 3 = 5.0", "2 ^ 8 = 256",
       RadicalSign \o "25 = 5.0" >>

\* C8, as the code has it: main() prints two header lines and then six
\* result lines carrying 8, 6, 42, 5.0, 256 and 5.0 (divide returns a float);
\* it logs six INFO records and no error, never fails, and once entered it
\* always ends.
MainRun ==
    /\ [](mainpc # "failed" /\ ~ErrorLogged)
    /\ [](mainpc = "done" => stdout = Printed /\ Len(mainlog) = 6)
    /\ (mainpc \in Labels ~> mainpc = "done")

\* main() has ended with all its lines printed
MainDone ==
    /\ mainpc = "done"
    /\ Len(stdout) = 8
    /\ stdout[6] = "15 / 3 = 5.0"

====
